---- MODULE Spec2Model ----
(***************************************************************************)
(* APsync: the ArduinoConnector library (ArduinoConnector.h/.cpp) and the  *)
(* sketch that uses it (main.cpp).  The device answers a username          *)
(* challenge over the serial line, is authenticated by "AUTH_SUCCESS",     *)
(* forwards later lines to a registered callback and, once authenticated,  *)
(* emits a random value every 5 seconds.                                   *)
(***************************************************************************)
EXTENDS Integers, Sequences, FiniteSets, TLC

VARIABLES
    username,       \* ArduinoConnector::username
    incomingData,   \* ArduinoConnector::incomingData
    authenticated,  \* ArduinoConnector::authenticated
    userCallback,   \* ArduinoConnector::userCallback
    lastSendTime,   \* static unsigned long lastSendTime of loop()
    serialRx,       \* lines sent by the host and not yet read by the device
    serialTx,       \* lines printed by the device, oldest first
    led,            \* level of LED_BUILTIN
    now,            \* milliseconds since boot (the timer behind millis())
    pc,             \* "boot" before setup()/begin() has run, "run" after
    events,         \* history: every observable event, oldest first
    emitAt,         \* history: the time of every periodic emission, oldest first
    last,           \* history: the step taken last and the state before it
    sends,          \* number of direct sendData() calls made so far
    hostLines,      \* number of lines the host has sent so far
    advances        \* number of times the clock was advanced between operations

vars == <<username, incomingData, authenticated, userCallback, lastSendTime,
          serialRx, serialTx, led, now, pc, events, emitAt, last, sends,
          hostLines, advances>>

----------------------------------------------------------------------------
(* Bounds of the model. *)

MaxHostLines == 3
MaxAdvances == 2
MaxSends == 1

----------------------------------------------------------------------------
(* Time.  millis() is an unsigned long, 32 bits wide; a time is kept as two *)
(* limbs of 16 bits, value = hi * 2^16 + lo.  `now' is not truncated (hi    *)
(* is unbounded); millis() is `now' truncated to 32 bits.                   *)

LimbBits == 16

Limb == 2 ^ LimbBits

Ms(n) == [hi |-> n \div Limb, lo |-> n % Limb]

WAdd(a, b) ==
    LET s == a.lo + b.lo
    IN  [hi |-> a.hi + b.hi + (s \div Limb), lo |-> s % Limb]

\* a - b for a >= b, not truncated
WSub(a, b) ==
    LET d == a.lo - b.lo
    IN  [hi |-> a.hi - b.hi - (IF d < 0 THEN 1 ELSE 0), lo |-> d % Limb]

WLe(a, b) == a.hi < b.hi \/ (a.hi = b.hi /\ a.lo <= b.lo)

WGt(a, b) == ~WLe(a, b)

\* the value as an unsigned long
U32(a) == [hi |-> a.hi % Limb, lo |-> a.lo]

\* the subtraction with the borrow between the limbs left out
USubWrong(a, b) ==
    LET d == a.lo - b.lo
    IN  [hi |-> (a.hi - b.hi) % Limb, lo |-> d % Limb]

\* a - b in unsigned long arithmetic: (a - b) mod 2^32
USub(a, b) ==
    LET d == a.lo - b.lo
    IN  [hi |-> (a.hi - b.hi - (IF d < 0 THEN 1 ELSE 0)) % Limb, lo |-> d % Limb]

----------------------------------------------------------------------------
(* Lines.  A line on the wire is a sequence of pieces, each a run of text   *)
(* or one whitespace character; String::trim() drops the whitespace at both *)
(* ends and the String is the pieces joined.                                *)

Whitespace == {" ", "\t", "\r"}

RECURSIVE TrimLeft(_)
TrimLeft(s) ==
    IF s # <<>> /\ Head(s) \in Whitespace THEN TrimLeft(Tail(s)) ELSE s

RECURSIVE TrimRight(_)
TrimRight(s) ==
    IF s # <<>> /\ s[Len(s)] \in Whitespace
    THEN TrimRight(SubSeq(s, 1, Len(s) - 1))
    ELSE s

RECURSIVE Join(_)
Join(s) == IF s = <<>> THEN "" ELSE Head(s) \o Join(Tail(s))

trim(s) == Join(TrimRight(TrimLeft(s)))

\* The lines the host sends in this model.
HostLines ==
    { <<"Send your username:">>,
      <<"AUTH_SUCCESS", "\r">>,
      <<"SEND_RANDOM">>,
      <<" ", "\r">> }

----------------------------------------------------------------------------
(* The outside world of the library. *)

NULL == "NULL"

\* Callbacks a sketch may register: none, main.cpp's handleCommand, and a
\* callback that does nothing.
Callbacks == {NULL, "handleCommand", "probe"}

\* Raw outputs of the pseudo-random generator behind random().
RawRandom == {98, 99}

Ev(k, v, h) == [k |-> k, v |-> v, h |-> h]

\* The state as one record, threaded through the statements of a function.
World ==
    [username |-> username, incomingData |-> incomingData,
     authenticated |-> authenticated, userCallback |-> userCallback,
     lastSendTime |-> lastSendTime, serialRx |-> serialRx,
     serialTx |-> serialTx, led |-> led, now |-> now, events |-> events,
     emitAt |-> emitAt]

millis(w) == U32(w.now)

delay(w, ms) == [w EXCEPT !.now = WAdd(@, Ms(ms))]

println(w, s) ==
    [w EXCEPT !.serialTx = Append(@, s),
              !.events = Append(@, Ev("tx", s, ""))]

digitalWrite(w, level) ==
    [w EXCEPT !.led = level,
              !.events = Append(@, Ev("led", level, ""))]

\* random() with the upper bound taken as inclusive
randomInclusive(lo, hi, raw) == lo + (raw % (hi - lo + 1))

\* random(min, max): min + raw % (max - min), for min < max
random(lo, hi, raw) == IF lo >= hi THEN lo ELSE lo + (raw % (hi - lo))

String(n) == ToString(n)

----------------------------------------------------------------------------
(* ArduinoConnector.cpp *)

Interval == 5000
BlinkCount == 3
BlinkDelay == 100
BeginDelay == 100

\* the for loop of blinkLED(), from iteration i on
RECURSIVE blinkFrom(_, _)
blinkFrom(w, i) ==
    IF i < BlinkCount
    THEN LET w1 == digitalWrite(w, "HIGH")
             w2 == delay(w1, BlinkDelay)
             w3 == digitalWrite(w2, "LOW")
             w4 == delay(w3, BlinkDelay)
         IN  blinkFrom(w4, i + 1)
    ELSE w

blinkLED(w) == blinkFrom(w, 0)

\* begin(): Serial.begin, pinMode, delay(100)
begin(w) == delay(w, BeginDelay)

isAuthenticated(w) == w.authenticated

\* sendData() without the test of `authenticated'
sendDataUngated(w, data) == println(w, data)

sendData(w, data) ==
    IF w.authenticated THEN println(w, data) ELSE w

\* setCommandCallback() keeping a callback that is already registered
setCommandCallbackOnce(w, callback) ==
    IF w.userCallback = NULL THEN [w EXCEPT !.userCallback = callback] ELSE w

setCommandCallback(w, callback) == [w EXCEPT !.userCallback = callback]

\* main.cpp: handleCommand(command); raw is what the generator yields if asked
handleCommand(w, command, raw) ==
    IF command = "SEND_RANDOM"
    THEN LET randomValue == random(1, 100, raw)
         IN  sendData(w, "Random: " \o String(randomValue))
    ELSE w

\* userCallback(incomingData): the call through the function pointer
callCallback(w, raw) ==
    LET w1 == [w EXCEPT !.events =
                   Append(@, Ev("call", w.incomingData, w.userCallback))]
    IN  IF w.userCallback = "handleCommand"
        THEN handleCommand(w1, w.incomingData, raw)
        ELSE w1

\* update() without the test of `authenticated' before the callback
updateDispatchUnauth(w, raw) ==
    IF w.incomingData = "Send your username:"
    THEN println(w, w.username)
    ELSE IF w.incomingData = "AUTH_SUCCESS"
    THEN println(blinkLED([w EXCEPT !.authenticated = TRUE]),
                 "Authentication confirmed")
    ELSE IF w.userCallback # NULL
    THEN callCallback(w, raw)
    ELSE w

\* update() with || for && in the test before the callback
updateBranchOr(w, raw) ==
    IF w.incomingData = "Send your username:"
    THEN println(w, w.username)
    ELSE IF w.incomingData = "AUTH_SUCCESS"
    THEN println(blinkLED([w EXCEPT !.authenticated = TRUE]),
                 "Authentication confirmed")
    ELSE IF w.authenticated \/ w.userCallback # NULL
    THEN callCallback(w, raw)
    ELSE w

\* update() taking the username request as the start of a new handshake
updateBranchRelogin(w, raw) ==
    IF w.incomingData = "Send your username:"
    THEN println([w EXCEPT !.authenticated = FALSE], w.username)
    ELSE IF w.incomingData = "AUTH_SUCCESS"
    THEN println(blinkLED([w EXCEPT !.authenticated = TRUE]),
                 "Authentication confirmed")
    ELSE IF w.authenticated /\ w.userCallback # NULL
    THEN callCallback(w, raw)
    ELSE w

\* update() echoing the request instead of answering with the username
updateBranchEcho(w, raw) ==
    IF w.incomingData = "Send your username:"
    THEN println(w, w.incomingData)
    ELSE IF w.incomingData = "AUTH_SUCCESS"
    THEN println(blinkLED([w EXCEPT !.authenticated = TRUE]),
                 "Authentication confirmed")
    ELSE IF w.authenticated /\ w.userCallback # NULL
    THEN callCallback(w, raw)
    ELSE w

\* update() blinking and confirming only on the first AUTH_SUCCESS
updateBranchOnce(w, raw) ==
    IF w.incomingData = "Send your username:"
    THEN println(w, w.username)
    ELSE IF w.incomingData = "AUTH_SUCCESS"
    THEN IF w.authenticated
         THEN w
         ELSE println(blinkLED([w EXCEPT !.authenticated = TRUE]),
                      "Authentication confirmed")
    ELSE IF w.authenticated /\ w.userCallback # NULL
    THEN callCallback(w, raw)
    ELSE w

\* update() dropping empty lines before the callback
updateBranchSkipEmpty(w, raw) ==
    IF w.incomingData = "Send your username:"
    THEN println(w, w.username)
    ELSE IF w.incomingData = "AUTH_SUCCESS"
    THEN println(blinkLED([w EXCEPT !.authenticated = TRUE]),
                 "Authentication confirmed")
    ELSE IF w.authenticated /\ w.userCallback # NULL /\ w.incomingData # ""
    THEN callCallback(w, raw)
    ELSE w

\* the branches of update() with the callback rule tested first
updateBranchCallbackFirst(w, raw) ==
    IF w.authenticated /\ w.userCallback # NULL
    THEN callCallback(w, raw)
    ELSE IF w.incomingData = "Send your username:"
    THEN println(w, w.username)
    ELSE IF w.incomingData = "AUTH_SUCCESS"
    THEN println(blinkLED([w EXCEPT !.authenticated = TRUE]),
                 "Authentication confirmed")
    ELSE w

\* the branch of update() taken for the line now in incomingData
updateBranch(w, raw) ==
    IF w.incomingData = "Send your username:"
    THEN println(w, w.username)
    ELSE IF w.incomingData = "AUTH_SUCCESS"
    THEN println(blinkLED([w EXCEPT !.authenticated = TRUE]),
                 "Authentication confirmed")
    ELSE IF w.authenticated /\ w.userCallback # NULL
    THEN callCallback(w, raw)
    ELSE w

\* update() with while for if: it reads on until the buffer is empty
RECURSIVE updateDrain(_, _)
updateDrain(w, raw) ==
    IF Len(w.serialRx) > 0
    THEN LET line == trim(Head(w.serialRx))
             w1 == [w EXCEPT !.serialRx = Tail(@),
                             !.incomingData = line,
                             !.events = Append(@, Ev("read", line, ""))]
         IN  updateDrain(updateBranch(w1, raw), raw)
    ELSE w

\* update() leaving a line it does not act on in the receive buffer
updateRequeue(w, raw) ==
    IF Len(w.serialRx) > 0
    THEN LET line == trim(Head(w.serialRx))
             w1 == [w EXCEPT !.serialRx = Tail(@),
                             !.incomingData = line,
                             !.events = Append(@, Ev("read", line, ""))]
             w2 == updateBranch(w1, raw)
         IN  IF w2.events = w1.events
             THEN [w2 EXCEPT !.serialRx = Append(@, Head(w.serialRx))]
             ELSE w2
    ELSE w

\* update() without the test of Serial.available(): with nothing to read it
\* acts on the line still held in incomingData
updateStale(w, raw) ==
    IF Len(w.serialRx) > 0
    THEN LET line == trim(Head(w.serialRx))
             w1 == [w EXCEPT !.serialRx = Tail(@),
                             !.incomingData = line,
                             !.events = Append(@, Ev("read", line, ""))]
         IN  updateBranch(w1, raw)
    ELSE updateBranch(w, raw)

update(w, raw) ==
    IF Len(w.serialRx) > 0
    THEN LET line == trim(Head(w.serialRx))
             w1 == [w EXCEPT !.serialRx = Tail(@),
                             !.incomingData = line,
                             !.events = Append(@, Ev("read", line, ""))]
         IN  updateBranch(w1, raw)
    ELSE w

----------------------------------------------------------------------------
(* main.cpp *)

setup(w) == setCommandCallback(begin(w), "handleCommand")

\* the timer block with >= for >
emitterAtBoundary(w, raw) ==
    IF isAuthenticated(w)
    THEN IF ~WGt(Ms(Interval), USub(millis(w), w.lastSendTime))
         THEN LET randomNum == random(1, 100, raw)
                  w1 == [w EXCEPT !.events =
                                      Append(@, Ev("emit", String(randomNum), "")),
                                  !.emitAt = Append(@, w.now)]
                  w2 == sendData(w1, String(randomNum))
              IN  [w2 EXCEPT !.lastSendTime = millis(w2)]
         ELSE w
    ELSE w

\* the timer block keeping a fixed schedule: lastSendTime += 5000
emitterCatchUp(w, raw) ==
    IF isAuthenticated(w)
    THEN IF WGt(USub(millis(w), w.lastSendTime), Ms(Interval))
         THEN LET randomNum == random(1, 100, raw)
                  w1 == [w EXCEPT !.events =
                                      Append(@, Ev("emit", String(randomNum), "")),
                                  !.emitAt = Append(@, w.now)]
                  w2 == sendData(w1, String(randomNum))
              IN  [w2 EXCEPT !.lastSendTime = U32(WAdd(@, Ms(Interval)))]
         ELSE w
    ELSE w

\* the timer block of loop(): lines 26-34.  Serial.println() writes to the
\* transmit buffer without waiting, so the second millis() reads the same
\* millisecond as the first.
emitter(w, raw) ==
    IF isAuthenticated(w)
    THEN IF WGt(USub(millis(w), w.lastSendTime), Ms(Interval))
         THEN LET randomNum == random(1, 100, raw)
                  w1 == [w EXCEPT !.events =
                                      Append(@, Ev("emit", String(randomNum), "")),
                                  !.emitAt = Append(@, w.now)]
                  w2 == sendData(w1, String(randomNum))
              IN  [w2 EXCEPT !.lastSendTime = millis(w2)]
         ELSE w
    ELSE w

\* loop() with the timer block run only after a line was read
loopTimerOnRead(w, raw1, raw2) ==
    CHOOSE v \in {IF Len(w.serialRx) > 0 THEN emitter(u, raw2) ELSE u :
                      u \in {update(w, raw1)}} : TRUE

\* loop() starting the interval anew when "AUTH_SUCCESS" was read
loopRestartOnAuth(w, raw1, raw2) ==
    CHOOSE v \in {IF Len(w.serialRx) > 0 /\ u.incomingData = "AUTH_SUCCESS"
                  THEN [u EXCEPT !.lastSendTime = millis(u)]
                  ELSE emitter(u, raw2) :
                      u \in {update(w, raw1)}} : TRUE

\* loop(): connector.update() runs once, and the timer block starts from the
\* state it leaves (u)
loop(w, raw1, raw2) ==
    CHOOSE v \in {emitter(u, raw2) : u \in {update(w, raw1)}} : TRUE

----------------------------------------------------------------------------
(* The state machine. *)

\* the username main.cpp constructs the connector with
Usernames == {"Venus"}

\* what a sketch passes to sendData() directly
Payloads == {"x", ""}

\* a stall of 2^32 - 5000 ms, which takes millis() to the edge of its range
LongStall == WSub([hi |-> Limb, lo |-> 0], Ms(Interval))

\* how far the clock moves between two operations
Deltas == {Ms(1), Ms(4300), LongStall}

\* what `last' keeps of the state a step started in
Pre ==
    [username |-> username, incomingData |-> incomingData,
     authenticated |-> authenticated, userCallback |-> userCallback,
     lastSendTime |-> lastSendTime, serialRx |-> serialRx,
     nTx |-> Len(serialTx), nEv |-> Len(events), nEmit |-> Len(emitAt),
     led |-> led, now |-> now]

Op(name, arg, ret) == [op |-> name, arg |-> arg, ret |-> ret, pre |-> Pre]

Set(w) ==
    /\ username' = w.username
    /\ incomingData' = w.incomingData
    /\ authenticated' = w.authenticated
    /\ userCallback' = w.userCallback
    /\ lastSendTime' = w.lastSendTime
    /\ serialRx' = w.serialRx
    /\ serialTx' = w.serialTx
    /\ led' = w.led
    /\ now' = w.now
    /\ events' = w.events
    /\ emitAt' = w.emitAt

\* ArduinoConnector connector("Venus"): the state after construction
Init ==
    /\ username \in Usernames
    /\ incomingData = ""
    /\ authenticated = FALSE
    /\ userCallback = NULL
    /\ lastSendTime = Ms(0)
    /\ serialRx = <<>>
    /\ serialTx = <<>>
    /\ led = "LOW"
    /\ now = Ms(0)
    /\ pc = "boot"
    /\ events = <<>>
    /\ emitAt = <<>>
    /\ last = Op("init", "", FALSE)
    /\ sends = 0
    /\ hostLines = 0
    /\ advances = 0

\* a sketch whose setup() only calls connector.begin()
Begin ==
    /\ pc = "boot"
    /\ Set(begin(World))
    /\ pc' = "run"
    /\ last' = Op("begin", "", FALSE)
    /\ UNCHANGED <<sends, hostLines, advances>>

\* main.cpp: setup()
Setup ==
    /\ pc = "boot"
    /\ Set(setup(World))
    /\ pc' = "run"
    /\ last' = Op("setup", "", FALSE)
    /\ UNCHANGED <<sends, hostLines, advances>>

\* the host writes one line to the serial port
HostSend ==
    /\ pc = "run"
    /\ hostLines < MaxHostLines
    /\ \E l \in HostLines : serialRx' = Append(serialRx, l)
    /\ hostLines' = hostLines + 1
    /\ last' = Op("hostSend", "", FALSE)
    /\ UNCHANGED <<username, incomingData, authenticated, userCallback,
                   lastSendTime, serialTx, led, now, pc, events, emitAt,
                   sends, advances>>

\* time passes between two iterations of loop()
Advance ==
    /\ pc = "run"
    /\ advances < MaxAdvances
    /\ \E d \in Deltas : now' = WAdd(now, d)
    /\ advances' = advances + 1
    /\ last' = Op("advance", "", FALSE)
    /\ UNCHANGED <<username, incomingData, authenticated, userCallback,
                   lastSendTime, serialRx, serialTx, led, pc, events, emitAt,
                   sends, hostLines>>

\* connector.update()
Update ==
    /\ pc = "run"
    /\ \E raw \in RawRandom : Set(update(World, raw))
    /\ last' = Op("update", "", FALSE)
    /\ UNCHANGED <<pc, sends, hostLines, advances>>

\* connector.sendData(data), called by the sketch directly
SendData ==
    /\ pc = "run"
    /\ sends < MaxSends
    /\ \E data \in Payloads :
          /\ Set(sendData(World, data))
          /\ last' = Op("sendData", data, FALSE)
    /\ sends' = sends + 1
    /\ UNCHANGED <<pc, hostLines, advances>>

\* connector.setCommandCallback(callback)
SetCommandCallback ==
    /\ pc = "run"
    /\ \E callback \in Callbacks :
          /\ Set(setCommandCallback(World, callback))
          /\ last' = Op("setCommandCallback", callback, FALSE)
    /\ UNCHANGED <<pc, sends, hostLines, advances>>

\* connector.isAuthenticated()
IsAuthenticated ==
    /\ pc = "run"
    /\ last' = Op("isAuthenticated", "", isAuthenticated(World))
    /\ UNCHANGED <<username, incomingData, authenticated, userCallback,
                   lastSendTime, serialRx, serialTx, led, now, pc, events,
                   emitAt, sends, hostLines, advances>>

\* main.cpp: one iteration of loop()
Loop ==
    /\ pc = "run"
    /\ \E raw1 \in RawRandom, raw2 \in RawRandom :
          Set(loop(World, raw1, raw2))
    /\ last' = Op("loop", "", FALSE)
    /\ UNCHANGED <<pc, sends, hostLines, advances>>

\* The library under any sketch: the public functions in any order.
Next ==
    \/ Begin
    \/ HostSend
    \/ Update
    \/ SendData
    \/ SetCommandCallback
    \/ IsAuthenticated

Spec == Init /\ [][Next]_vars

\* The sketch main.cpp: setup(), then loop() for ever.
SketchNext ==
    \/ Setup
    \/ HostSend
    \/ Advance
    \/ Loop

SketchSpec == Init /\ [][SketchNext]_vars

----------------------------------------------------------------------------
(* What the step taken last did. *)

NewEvents == SubSeq(events, last.pre.nEv + 1, Len(events))

NewTx == SubSeq(serialTx, last.pre.nTx + 1, Len(serialTx))

IsCall(e) == e.k = "call"

IsLed(e) == e.k = "led"

IsEmit(e) == e.k = "emit"

IsRead(e) == e.k = "read"

Calls(evs) == SelectSeq(evs, IsCall)

Leds(evs) == SelectSeq(evs, IsLed)

Emits(evs) == SelectSeq(evs, IsEmit)

Reads(evs) == SelectSeq(evs, IsRead)

\* the last step was an update() that read a line
ReadLine == last.op \in {"update", "loop"} /\ last.pre.serialRx # <<>>

\* the last step was a connector.update() that read the line L (as trimmed)
Processed(L) ==
    /\ last.op = "update"
    /\ last.pre.serialRx # <<>>
    /\ trim(Head(last.pre.serialRx)) = L

\* authenticated, username and the callback are as before the last step
ConnectorUnchanged ==
    /\ authenticated = last.pre.authenticated
    /\ username = last.pre.username
    /\ userCallback = last.pre.userCallback

\* the events of one run of the indicator pattern
BlinkPattern ==
    << Ev("led", "HIGH", ""), Ev("led", "LOW", ""),
       Ev("led", "HIGH", ""), Ev("led", "LOW", ""),
       Ev("led", "HIGH", ""), Ev("led", "LOW", "") >>

----------------------------------------------------------------------------
(* The library: claims checked under Spec. *)

\* C1: the registered callback is invoked only while authenticated: a step
\* that invokes it started with authenticated = TRUE, and whenever the
\* callback has ever been invoked the connector is authenticated.
C1_DispatchOnlyWhenAuthenticated ==
    /\ Calls(NewEvents) # <<>> => last.pre.authenticated
    /\ Calls(events) # <<>> => authenticated

\* an update() that invoked the callback
C1_Witness ==
    /\ last.op = "update"
    /\ Calls(NewEvents) # <<>>

\* C2: authenticated is FALSE after construction and, once TRUE, no step
\* (update, sendData, setCommandCallback, isAuthenticated, with any line)
\* makes it FALSE again.
C2_AuthenticatedOneWay ==
    /\ ~authenticated
    /\ [][authenticated => authenticated']_vars

\* update() reads the username request on an authenticated connector, after
\* the sketch has called sendData() itself
C2_Witness ==
    /\ last.pre.authenticated
    /\ authenticated
    /\ Processed("Send your username:")
    /\ sends = MaxSends

\* C3: sendData(data) prints exactly the one line data if authenticated and
\* nothing otherwise, and in both cases leaves authenticated, username and
\* the callback as they were.
C3_SendDataGate ==
    last.op = "sendData" =>
        /\ NewTx = (IF last.pre.authenticated THEN <<last.arg>> ELSE <<>>)
        /\ ConnectorUnchanged

\* sendData("x") on an authenticated connector
C3_Witness ==
    /\ last.op = "sendData"
    /\ last.arg = "x"
    /\ last.pre.authenticated
    /\ serialTx[Len(serialTx)] = "x"

\* C4: reading "Send your username:" prints exactly one line, the username,
\* and nothing else, whether authenticated or not and every time; the step
\* leaves authenticated as it was, does not blink and does not call the
\* callback.
C4_UsernameReply ==
    Processed("Send your username:") =>
        /\ NewTx = <<username>>
        /\ username \in Usernames
        /\ NewEvents = << Ev("read", "Send your username:", ""),
                          Ev("tx", username, "") >>
        /\ ConnectorUnchanged

\* the request answered on an authenticated connector that had answered one
\* before
C4_Witness ==
    /\ Processed("Send your username:")
    /\ last.pre.authenticated
    /\ \E i \in 1..last.pre.nTx : serialTx[i] = username

\* C5: after every reading of "AUTH_SUCCESS" authenticated is TRUE, and every
\* reading, the first and each repetition, runs the indicator pattern once
\* and then prints "Authentication confirmed" once.
C5_AuthSuccessRepeats ==
    Processed("AUTH_SUCCESS") =>
        /\ authenticated
        /\ NewEvents = <<Ev("read", "AUTH_SUCCESS", "")>> \o BlinkPattern
                         \o <<Ev("tx", "Authentication confirmed", "")>>
        /\ NewTx = <<"Authentication confirmed">>

\* "AUTH_SUCCESS" read on a connector that was authenticated already
C5_Witness ==
    /\ Processed("AUTH_SUCCESS")
    /\ last.pre.authenticated

\* C6: reading any line other than the two protocol lines while not
\* authenticated prints nothing, calls no callback, does not blink and leaves
\* authenticated FALSE, with or without a callback registered.
C6_UnauthenticatedIgnored ==
    \A l \in HostLines :
        ( /\ Processed(trim(l))
          /\ trim(l) \notin {"Send your username:", "AUTH_SUCCESS"}
          /\ ~last.pre.authenticated )
        => /\ NewTx = <<>>
           /\ NewEvents = <<Ev("read", trim(l), "")>>
           /\ ~authenticated
           /\ ConnectorUnchanged

\* "SEND_RANDOM" read before authentication with handleCommand registered
C6_Witness ==
    /\ Processed("SEND_RANDOM")
    /\ ~last.pre.authenticated
    /\ last.pre.userCallback = "handleCommand"

\* C7 as claimed: reading a line that is empty after trimming calls no
\* callback, prints nothing and changes no state, in every state, also when
\* authenticated with a callback registered.
C7_EmptyLineAlwaysIgnored ==
    Processed("") =>
        /\ Calls(NewEvents) = <<>>
        /\ NewTx = <<>>
        /\ ConnectorUnchanged

\* C7 as amended: a line that is empty after trimming is treated as any other
\* line that is not a protocol line: it is dropped when not authenticated or
\* when no callback is registered, and otherwise the callback is called once
\* with the empty string; update() prints nothing for it, does not blink and
\* leaves authenticated, username and the callback as they were.
C7_EmptyLineLikeAnyCommand ==
    Processed("") =>
        /\ NewTx = <<>>
        /\ ConnectorUnchanged
        /\ NewEvents =
              <<Ev("read", "", "")>> \o
              (IF last.pre.authenticated /\ last.pre.userCallback # NULL
               THEN <<Ev("call", "", last.pre.userCallback)>>
               ELSE <<>>)

\* an empty line read while authenticated with handleCommand registered
C7_Witness ==
    /\ Processed("")
    /\ last.pre.authenticated
    /\ last.pre.userCallback = "handleCommand"
    /\ Calls(NewEvents) = <<Ev("call", "", "handleCommand")>>

----------------------------------------------------------------------------
(* The sketch: claims checked under SketchSpec. *)

\* some update() so far has read "AUTH_SUCCESS"
AuthSuccessSeen ==
    \E i \in 1..Len(events) : events[i] = Ev("read", "AUTH_SUCCESS", "")

\* the number of lines equal to L read so far
NumRead(L) == Cardinality({i \in 1..Len(events) : events[i] = Ev("read", L, "")})

\* C8: as long as no "AUTH_SUCCESS" has been read, everything the device has
\* printed is a username reply (one per request read), the callback has
\* never been called, nothing was emitted and the device is not
\* authenticated.
C8_SilentUntilAuthSuccess ==
    ~AuthSuccessSeen =>
        /\ \A i \in 1..Len(serialTx) : serialTx[i] = username
        /\ Len(serialTx) = NumRead("Send your username:")
        /\ Calls(events) = <<>>
        /\ Emits(events) = <<>>
        /\ emitAt = <<>>
        /\ ~authenticated

\* no "AUTH_SUCCESS" so far, though a request and a command were read and
\* more than two intervals have passed
C8_Witness ==
    /\ ~AuthSuccessSeen
    /\ NumRead("Send your username:") > 0
    /\ NumRead("SEND_RANDOM") > 0
    /\ WGt(now, Ms(2 * Interval))
    /\ last.op = "loop"

\* the last step was a loop() that emitted
Emitted == last.op = "loop" /\ Len(emitAt) > last.pre.nEmit

\* C9: a value is emitted only while authenticated and only when more than
\* 5000 ms have passed since the emission before it (since the clock's start
\* for the first one); the loop() that emits found
\* millis() - lastSendTime > 5000.
C9_EmissionSpacing ==
    /\ \A i \in 1..Len(emitAt) :
          WGt(WSub(emitAt[i], IF i = 1 THEN Ms(0) ELSE emitAt[i - 1]),
              Ms(Interval))
    /\ emitAt # <<>> => authenticated
    /\ Emitted =>
          WGt(USub(U32(emitAt[Len(emitAt)]), last.pre.lastSendTime),
              Ms(Interval))

\* a second emission
C9_Witness ==
    /\ Emitted
    /\ Len(emitAt) = 2

\* C10: however long the loop was stalled, a loop() emits at most one value;
\* when it emits it prints that one value and sets lastSendTime to the
\* current millis(), and a loop() that runs in the millisecond of the
\* emission before it emits nothing.
C10_NoCatchUp ==
    /\ last.op = "loop" => Len(emitAt) <= last.pre.nEmit + 1
    /\ Emitted =>
          /\ lastSendTime = U32(now)
          /\ Len(Emits(NewEvents)) = 1
          /\ Len(NewEvents) >= 2
          /\ NewEvents[Len(NewEvents) - 1].k = "emit"
          /\ NewEvents[Len(NewEvents)] =
                Ev("tx", NewEvents[Len(NewEvents) - 1].v, "")
    /\ ( /\ last.op = "loop"
         /\ last.pre.nEmit > 0
         /\ emitAt[last.pre.nEmit] = last.pre.now )
       => Len(emitAt) = last.pre.nEmit

\* a loop() that emitted one value more than two intervals after the one
\* before, followed in the same millisecond by a loop() that emits nothing
C10_Witness ==
    /\ last.op = "loop"
    /\ last.pre.nEmit > 0
    /\ emitAt[last.pre.nEmit] = last.pre.now
    /\ Len(emitAt) = last.pre.nEmit
    /\ WGt(WSub(emitAt[last.pre.nEmit],
                IF last.pre.nEmit = 1 THEN Ms(0) ELSE emitAt[last.pre.nEmit - 1]),
           Ms(2 * Interval))

----------------------------------------------------------------------------
(* The sketch, continued. *)

\* the events without the periodic emissions: each "emit" and the line
\* printed for it are left out
RECURSIVE WithoutEmissions(_)
WithoutEmissions(evs) ==
    IF evs = <<>> THEN <<>>
    ELSE IF Head(evs).k = "emit"
    THEN WithoutEmissions(SubSeq(evs, 3, Len(evs)))
    ELSE <<Head(evs)>> \o WithoutEmissions(Tail(evs))

\* the lines read so far, oldest first
LinesRead == [i \in 1..Len(Reads(events)) |-> Reads(events)[i].v]

\* what the handshake followed by SEND_RANDOM shows when the reply carries n
HandshakeThenRandom(n) ==
    << Ev("read", "Send your username:", ""),
       Ev("tx", "Venus", ""),
       Ev("read", "AUTH_SUCCESS", "") >>
    \o BlinkPattern
    \o << Ev("tx", "Authentication confirmed", ""),
          Ev("read", "SEND_RANDOM", ""),
          Ev("call", "SEND_RANDOM", "handleCommand"),
          Ev("tx", "Random: " \o ToString(n), "") >>

\* C11: when the lines read are "Send your username:", "AUTH_SUCCESS",
\* "SEND_RANDOM", one per loop(), the events other than periodic emissions
\* are, in this order: "Venus" printed, the indicator pattern once,
\* "Authentication confirmed" printed, handleCommand called with
\* "SEND_RANDOM" (not before the third line), "Random: n" printed with n in
\* 1..99.
C11_HandshakeScenario ==
    LinesRead = <<"Send your username:", "AUTH_SUCCESS", "SEND_RANDOM">> =>
        \E n \in 1..99 : WithoutEmissions(events) = HandshakeThenRandom(n)

\* the three lines read and answered, with no periodic emission in between
C11_Witness ==
    /\ LinesRead = <<"Send your username:", "AUTH_SUCCESS", "SEND_RANDOM">>
    /\ last.op = "loop"
    /\ emitAt = <<>>
    /\ \E n \in 1..99 : events = HandshakeThenRandom(n)
    /\ serialTx[Len(serialTx)] = "Random: 99"

ProtocolLines == {"Send your username:", "AUTH_SUCCESS"}

\* "AUTH_SUCCESS" was read before event i
AuthenticatedAt(i) ==
    \E j \in 1..(i - 1) : events[j] = Ev("read", "AUTH_SUCCESS", "")

\* event i is the read of a line that is not a protocol line
CommandReadAt(i) ==
    /\ events[i].k = "read"
    /\ events[i].v \notin ProtocolLines

\* C12: a command read before authentication is dropped for good.  Every
\* line the host sent is read once and not kept; a command is followed by
\* the call of the callback with that very line if and only if it was read
\* after "AUTH_SUCCESS"; the callback is called only right after the read of
\* its line, so the calls are as many as the commands read while
\* authenticated.
C12_NothingBuffered ==
    /\ Len(Reads(events)) + Len(serialRx) = hostLines
    /\ \A i \in 1..Len(events) :
          CommandReadAt(i) =>
             ( ( /\ i < Len(events)
                 /\ events[i + 1] = Ev("call", events[i].v, "handleCommand") )
               <=> AuthenticatedAt(i) )
    /\ \A i \in 1..Len(events) :
          events[i].k = "call" =>
             i > 1 /\ events[i - 1] = Ev("read", events[i].v, "")
    /\ Len(Calls(events)) =
          Cardinality({i \in 1..Len(events) :
                          CommandReadAt(i) /\ AuthenticatedAt(i)})

\* "SEND_RANDOM" read before "AUTH_SUCCESS" and again after it: one call
C12_Witness ==
    /\ LinesRead = <<"SEND_RANDOM", "AUTH_SUCCESS", "SEND_RANDOM">>
    /\ Len(Calls(events)) = 1
    /\ serialRx = <<>>

----------------------------------------------------------------------------
(* The library, continued: claims checked under Spec. *)

IsUsernameReply(e) == e = Ev("tx", username, "")

IsConfirmation(e) == e = Ev("tx", "Authentication confirmed", "")

\* C13: one update() reads at most one line and does at most one of: answer
\* with the username, confirm the authentication, call the callback.  The
\* username and the confirmation are never both printed by one update(),
\* and neither comes with a call of the callback.
C13_OneActionPerTick ==
    last.op \in {"update", "loop"} =>
        /\ Len(Reads(NewEvents)) <= 1
        /\ serialRx = (IF last.pre.serialRx = <<>> THEN <<>>
                       ELSE Tail(last.pre.serialRx))
        /\ Len(SelectSeq(NewEvents, IsUsernameReply))
             + Len(SelectSeq(NewEvents, IsConfirmation))
             + Len(Calls(NewEvents)) <= 1

\* an update() that answered the username request while "AUTH_SUCCESS" was
\* waiting behind it in the buffer
C13_Witness ==
    /\ last.op = "update"
    /\ Len(last.pre.serialRx) = 2
    /\ trim(last.pre.serialRx[1]) = "Send your username:"
    /\ trim(last.pre.serialRx[2]) = "AUTH_SUCCESS"
    /\ NewTx = <<username>>
    /\ Len(serialRx) = 1

\* the last step was an update() that read a command (a line that is not a
\* protocol line) on an authenticated connector
CommandWhileAuthenticated ==
    /\ last.op = "update"
    /\ last.pre.serialRx # <<>>
    /\ trim(Head(last.pre.serialRx)) \notin ProtocolLines
    /\ last.pre.authenticated

\* C14: the connector holds one callback.  setCommandCallback(h) makes h the
\* callback, whatever was registered before, and nothing else changes the
\* slot; a command read while authenticated calls the callback now in the
\* slot, once, with the line read, and no other; with the slot empty (NULL)
\* it calls nothing, prints nothing and changes nothing.
C14_SingleCallbackSlot ==
    /\ last.op = "setCommandCallback" =>
          /\ userCallback = last.arg
          /\ authenticated = last.pre.authenticated
          /\ username = last.pre.username
          /\ NewEvents = <<>>
    /\ last.op \notin {"setCommandCallback", "setup", "init"} =>
          userCallback = last.pre.userCallback
    /\ CommandWhileAuthenticated =>
          /\ Calls(NewEvents) =
                (IF last.pre.userCallback # NULL
                 THEN <<Ev("call", trim(Head(last.pre.serialRx)),
                           last.pre.userCallback)>>
                 ELSE <<>>)
          /\ last.pre.userCallback = NULL =>
                /\ NewEvents = <<Ev("read", trim(Head(last.pre.serialRx)), "")>>
                /\ NewTx = <<>>
                /\ ConnectorUnchanged

\* a command that called handleCommand, and after the callback was replaced
\* a command that called only the new one
C14_Witness ==
    /\ CommandWhileAuthenticated
    /\ Len(Calls(events)) = 2
    /\ Calls(events)[1].h = "handleCommand"
    /\ Calls(NewEvents) = <<Ev("call", "SEND_RANDOM", "probe")>>

\* a command read while authenticated with the slot set back to NULL
C14_WitnessEmpty ==
    /\ CommandWhileAuthenticated
    /\ last.pre.userCallback = NULL
    /\ Calls(events) # <<>>

----------------------------------------------------------------------------
(* The sketch running for ever.  The histories keep the last loop() only,  *)
(* and `now' is the 32-bit timer itself, so that the state space is finite. *)
(* loop() is called again and again, so the clock moves by one step at most *)
(* between two iterations.                                                  *)

\* the step of the clock between two iterations: 2^30 ms
LiveStep == [hi |-> Limb \div 4, lo |-> 0]

\* the state with the histories emptied and the timer truncated
Forgetful ==
    [World EXCEPT !.events = <<>>, !.serialTx = <<>>, !.emitAt = <<>>,
                  !.now = U32(now)]

LiveLoop ==
    /\ pc = "run"
    /\ \E raw1 \in RawRandom, raw2 \in RawRandom :
           \E w \in {loop(Forgetful, raw1, raw2)} : Set(w)
    /\ last' = [op |-> "loop", arg |-> "", ret |-> FALSE,
                pre |-> [Pre EXCEPT !.nTx = 0, !.nEv = 0, !.nEmit = 0,
                                    !.now = U32(now)]]
    /\ UNCHANGED <<pc, sends, hostLines, advances>>

LiveAdvance ==
    /\ pc = "run"
    /\ last.op = "loop"
    /\ now' = U32(WAdd(now, LiveStep))
    /\ last' = Op("advance", "", FALSE)
    /\ UNCHANGED <<username, incomingData, authenticated, userCallback,
                   lastSendTime, serialRx, serialTx, led, pc, events, emitAt,
                   sends, hostLines, advances>>

LiveNext ==
    \/ Setup
    \/ HostSend
    \/ LiveAdvance
    \/ LiveLoop

LiveSpec ==
    /\ Init
    /\ [][LiveNext]_vars
    /\ WF_vars(Setup)
    /\ WF_vars(LiveLoop)
    /\ WF_vars(LiveAdvance)

\* C15: if loop() keeps being called and the clock keeps advancing, then
\* once the device is authenticated a value is emitted again and again, for
\* ever, whether or not any further line arrives.
C15_TelemetryKeepsComing ==
    [](authenticated => []<>Emitted)

\* a value emitted by a loop() that found no line to read, on a connector
\* that was authenticated before
C15_Witness ==
    /\ Emitted
    /\ last.pre.serialRx = <<>>
    /\ last.pre.authenticated
    /\ NewEvents = <<Ev("emit", NewTx[1], ""), Ev("tx", NewTx[1], "")>>

----------------------------------------------------------------------------
\* C16: update() called when no line is waiting on the serial port is a no-op:
\* it transmits nothing, calls neither the callback nor the LED, reads
\* nothing, and leaves authenticated, username, the callback, incomingData
\* and the clock as they were.
C16_NoLineNoOp ==
    (last.op = "update" /\ last.pre.serialRx = <<>>) =>
        /\ NewTx = <<>>
        /\ NewEvents = <<>>
        /\ led = last.pre.led
        /\ ConnectorUnchanged
        /\ incomingData = last.pre.incomingData
        /\ lastSendTime = last.pre.lastSendTime
        /\ now = last.pre.now
        /\ serialRx = <<>>

\* update() on an empty port of an authenticated connector with a callback,
\* the command read before still in incomingData
C16_Witness ==
    /\ last.op = "update"
    /\ last.pre.serialRx = <<>>
    /\ last.pre.authenticated
    /\ last.pre.userCallback = "handleCommand"
    /\ last.pre.incomingData = "SEND_RANDOM"

----------------------------------------------------------------------------
\* C17: the rules of update() are tried in order.  Reading "Send your
\* username:" or "AUTH_SUCCESS" gives the protocol reply and no call of the
\* callback, in every state, also when authenticated with a callback
\* registered; every other line read while authenticated with a callback
\* registered is passed to the callback exactly once, as it stands in
\* incomingData (the line after trim(), which is what the rules compare).
C17_RulePrecedence ==
    (last.op = "update" /\ last.pre.serialRx # <<>>) =>
        LET line == trim(Head(last.pre.serialRx))
        IN  /\ line = "Send your username:" =>
                  /\ NewTx = <<last.pre.username>>
                  /\ Calls(NewEvents) = <<>>
            /\ line = "AUTH_SUCCESS" =>
                  /\ NewTx = <<"Authentication confirmed">>
                  /\ Calls(NewEvents) = <<>>
            /\ ( /\ line \notin ProtocolLines
                 /\ last.pre.authenticated
                 /\ last.pre.userCallback # NULL ) =>
                  /\ Calls(NewEvents) =
                        <<Ev("call", line, last.pre.userCallback)>>
                  /\ incomingData = line

\* a protocol line read while authenticated with handleCommand registered,
\* after a command was passed to handleCommand
C17_Witness ==
    /\ last.op = "update"
    /\ last.pre.serialRx # <<>>
    /\ trim(Head(last.pre.serialRx)) \in ProtocolLines
    /\ last.pre.authenticated
    /\ last.pre.userCallback = "handleCommand"
    /\ Calls(events) = <<Ev("call", "SEND_RANDOM", "handleCommand")>>
    /\ Calls(NewEvents) = <<>>

----------------------------------------------------------------------------
(* The "AUTH_SUCCESS" branch of update(), statement by statement.  The host
   may write to the serial port while the device is blocked in delay(). *)

\* the positions inside the branch: line 40, the six digitalWrite() of
\* blinkLED() each with its delay(100), line 42
AuthSuccessBranch ==
    <<"L40", "on1", "off1", "on2", "off2", "on3", "off3", "L42">>

Positions == {AuthSuccessBranch[i] : i \in 1..Len(AuthSuccessBranch)}

PosOf(p) == CHOOSE i \in 1..Len(AuthSuccessBranch) : AuthSuccessBranch[i] = p

\* lines 28-30: readStringUntil('\n') and trim()
readLine(w) ==
    LET line == trim(Head(w.serialRx))
    IN  [w EXCEPT !.serialRx = Tail(@),
                  !.incomingData = line,
                  !.events = Append(@, Ev("read", line, ""))]

\* the branch with authenticated set only when the confirmation is printed
authStatementSetLast(w, i) ==
    IF i = 1
    THEN w
    ELSE IF i = Len(AuthSuccessBranch)
    THEN [println(w, "Authentication confirmed") EXCEPT !.authenticated = TRUE]
    ELSE delay(digitalWrite(w, IF i % 2 = 0 THEN "HIGH" ELSE "LOW"),
               BlinkDelay)

\* the i-th statement of the branch
authStatement(w, i) ==
    IF i = 1
    THEN [w EXCEPT !.authenticated = TRUE]
    ELSE IF i = Len(AuthSuccessBranch)
    THEN println(w, "Authentication confirmed")
    ELSE delay(digitalWrite(w, IF i % 2 = 0 THEN "HIGH" ELSE "LOW"),
               BlinkDelay)

\* the host writes one line, whatever the device is doing
StepHostSend ==
    /\ pc # "boot"
    /\ hostLines < MaxHostLines
    /\ \E l \in HostLines : serialRx' = Append(serialRx, l)
    /\ hostLines' = hostLines + 1
    /\ last' = Op("hostSend", "", FALSE)
    /\ UNCHANGED <<username, incomingData, authenticated, userCallback,
                   lastSendTime, serialTx, led, now, pc, events, emitAt,
                   sends, advances>>

\* connector.update() in loop(), when it does not read "AUTH_SUCCESS"
StepUpdate ==
    /\ pc = "run"
    /\ serialRx # <<>> => trim(Head(serialRx)) # "AUTH_SUCCESS"
    /\ \E raw \in RawRandom : Set(update(World, raw))
    /\ pc' = "timer"
    /\ last' = Op("update", "", FALSE)
    /\ UNCHANGED <<sends, hostLines, advances>>

\* connector.update() reading "AUTH_SUCCESS": up to the test of line 39
StepReadAuthSuccess ==
    /\ pc = "run"
    /\ serialRx # <<>>
    /\ trim(Head(serialRx)) = "AUTH_SUCCESS"
    /\ Set(readLine(World))
    /\ pc' = AuthSuccessBranch[1]
    /\ last' = Op("read", "", FALSE)
    /\ UNCHANGED <<sends, hostLines, advances>>

\* one statement of the branch
StepAuthSuccess ==
    /\ pc \in Positions
    /\ Set(authStatement(World, PosOf(pc)))
    /\ pc' = IF PosOf(pc) = Len(AuthSuccessBranch)
             THEN "timer"
             ELSE AuthSuccessBranch[PosOf(pc) + 1]
    /\ last' = Op("authSuccess", pc, FALSE)
    /\ UNCHANGED <<sends, hostLines, advances>>

\* the timer block of loop(), after update() has returned
StepTimer ==
    /\ pc = "timer"
    /\ \E raw \in RawRandom : Set(emitter(World, raw))
    /\ pc' = "run"
    /\ last' = Op("timer", "", FALSE)
    /\ UNCHANGED <<sends, hostLines, advances>>

StepNext ==
    \/ Setup
    \/ StepHostSend
    \/ Advance
    \/ StepUpdate
    \/ StepReadAuthSuccess
    \/ StepAuthSuccess
    \/ StepTimer

StepSpec == Init /\ [][StepNext]_vars

\* the events from the last line read on
SinceRead(n) == SubSeq(events, Len(events) - n, Len(events))

\* the LED writes done when the branch is at position i
LedsDone(i) == IF i <= 2 THEN 0 ELSE i - 2

\* C18: while one "AUTH_SUCCESS" is processed the steps come in order and
\* nothing comes between them.  authenticated is TRUE before the LED is
\* first switched on; at every position of the branch the events since the
\* line was read are that read and the LED writes done so far, HIGH and LOW
\* in turn, and nothing else (no line read, no callback, no value emitted),
\* also when lines arrive meanwhile; after the sixth write the LED is LOW,
\* and only then "Authentication confirmed" is printed.
C18_AuthSuccessOrdered ==
    /\ pc \in Positions =>
          LET i == PosOf(pc)
              n == LedsDone(i)
          IN  /\ i >= 2 => authenticated
              /\ incomingData = "AUTH_SUCCESS"
              /\ Len(events) > n
              /\ SinceRead(n) = <<Ev("read", "AUTH_SUCCESS", "")>>
                                    \o SubSeq(BlinkPattern, 1, n)
              /\ led = (IF n % 2 = 1 THEN "HIGH" ELSE "LOW")
              /\ last.op = "authSuccess" => Len(serialTx) = last.pre.nTx
    /\ (last.op = "authSuccess" /\ last.arg = "L42") =>
          /\ authenticated
          /\ led = "LOW"
          /\ Len(events) > Len(BlinkPattern) + 1
          /\ SinceRead(Len(BlinkPattern) + 1) =
                 <<Ev("read", "AUTH_SUCCESS", "")>> \o BlinkPattern
                    \o <<Ev("tx", "Authentication confirmed", "")>>
          /\ serialTx[Len(serialTx)] = "Authentication confirmed"
          /\ Len(serialTx) = last.pre.nTx + 1

\* the confirmation just printed on a device that was not authenticated
\* before, with a command waiting behind it, the timer due and nothing
\* emitted yet
C18_Witness ==
    /\ last.op = "authSuccess"
    /\ last.arg = "L42"
    /\ pc = "timer"
    /\ serialRx = << <<"SEND_RANDOM">> >>
    /\ hostLines = 2
    /\ WGt(millis(World), Ms(Interval))
    /\ emitAt = <<>>

----------------------------------------------------------------------------
\* the last step was a loop() that read "AUTH_SUCCESS"
LoopReadAuthSuccess ==
    /\ last.op = "loop"
    /\ last.pre.serialRx # <<>>
    /\ trim(Head(last.pre.serialRx)) = "AUTH_SUCCESS"

\* C19: lastSendTime is 0 from boot until the first value is emitted;
\* authentication does not set it.  So when loop() reads "AUTH_SUCCESS",
\* nothing has been emitted yet and millis() is above 5000 at the timer
\* test, the first value is emitted in that same loop(), right after
\* "Authentication confirmed", and lastSendTime becomes that millis().
C19_FirstEmissionWithAuth ==
    /\ emitAt = <<>> => lastSendTime = Ms(0)
    /\ ( /\ LoopReadAuthSuccess
         /\ last.pre.nEmit = 0
         /\ WGt(millis(World), Ms(Interval)) ) =>
          /\ last.pre.lastSendTime = Ms(0)
          /\ Len(emitAt) = 1
          /\ emitAt[1] = now
          /\ now = WAdd(last.pre.now, Ms(2 * BlinkCount * BlinkDelay))
          /\ lastSendTime = millis(World)
          /\ \E n \in 1..99 :
                /\ NewEvents = <<Ev("read", "AUTH_SUCCESS", "")>>
                                   \o BlinkPattern
                                   \o <<Ev("tx", "Authentication confirmed", ""),
                                        Ev("emit", String(n), ""),
                                        Ev("tx", String(n), "")>>
                /\ NewTx = <<"Authentication confirmed", String(n)>>

\* the device authenticated 9300 ms after boot: its first value goes out in
\* the loop() that read "AUTH_SUCCESS"
C19_Witness ==
    /\ LoopReadAuthSuccess
    /\ ~last.pre.authenticated
    /\ last.pre.now = Ms(8700)
    /\ Len(emitAt) = 1
    /\ NewTx = <<"Authentication confirmed", "99">>

----------------------------------------------------------------------------
\* the true time at which lastSendTime was last set, before the last step
SentAt == IF last.pre.nEmit = 0 THEN Ms(0) ELSE emitAt[last.pre.nEmit]

\* the true time passed since then, at the timer test of the last loop()
Elapsed == WSub(now, SentAt)

\* the millisecond counter has wrapped since lastSendTime was set
Wrapped == now.hi \div Limb > SentAt.hi \div Limb

\* C20: the timer test is (millis() - lastSendTime) mod 2^32 > 5000, and it
\* stays right when millis() wraps between the two readings.  A loop() of
\* an authenticated device emits exactly when the true time passed since
\* lastSendTime was set, taken mod 2^32, is above 5000; so it never emits
\* with 5000 ms or less passed, wrap or no wrap, and it always emits with
\* more than 5000 ms and less than 2^32 ms passed.
C20_WrapSafeInterval ==
    (last.op = "loop" /\ authenticated) =>
        /\ last.pre.lastSendTime = U32(SentAt)
        /\ Emitted <=> WGt(U32(Elapsed), Ms(Interval))
        /\ WLe(Elapsed, Ms(Interval)) => ~Emitted
        /\ (WGt(Elapsed, Ms(Interval)) /\ Elapsed.hi < Limb) => Emitted

\* a value emitted after the counter wrapped: millis() is below
\* lastSendTime, and less than 2^32 ms have passed since the value before
C20_Witness ==
    /\ Emitted
    /\ last.pre.nEmit = 1
    /\ Wrapped
    /\ WGt(last.pre.lastSendTime, millis(World))
    /\ Elapsed.hi < Limb

\* a loop() after the counter wrapped that emits nothing, 4300 ms after the
\* value before
C20_WitnessQuiet ==
    /\ last.op = "loop"
    /\ authenticated
    /\ last.pre.nEmit = 1
    /\ Wrapped
    /\ Elapsed = Ms(4300)
    /\ ~Emitted

====
